---------------------------- MODULE Spec2Model ----------------------------
(***************************************************************************)
(* SteelWorks: import / normalise / aggregate pipeline.                    *)
(*                                                                         *)
(* Layers modelled (src/src/steelworks):                                   *)
(*   lot_utils.py   normalize_lot_id                                       *)
(*   repository.py  get_or_create_lot/line/defect and the three queries    *)
(*   services.py    import_production_data / import_inspection_data /      *)
(*                  import_shipping_data                                   *)
(*   database.py    get_session (transactional scope)                      *)
(*                                                                         *)
(* Conventions.                                                            *)
(*   - A Python str is a sequence of one-character strings.                *)
(*   - An optional value is a set with at most one element: {} is None,    *)
(*     {v} is the value v.                                                 *)
(*   - A spreadsheet row is a function from the keys it holds to optional  *)
(*     values; dict.get is Get / GetD below.                               *)
(*   - A date is its proleptic Gregorian ordinal (date.toordinal()).       *)
(*   - The ORM classes (Lot, ProductionLine, Defect, ProductionRecord,     *)
(*     InspectionRecord, ShippingRecord) are tables: sets of records with  *)
(*     an integer primary key "id" and the columns the code reads/writes.  *)
(***************************************************************************)
EXTENDS Integers, Sequences, FiniteSets, TLC

(***************************************************************************)
(* Bounds of the model.                                                    *)
(***************************************************************************)
\* number of get_session scopes opened in one behaviour
MaxUses == 2
\* number of rows and resolver calls fed to the with-blocks of one behaviour
MaxRows == 2
\* length of the strings handed to the lot normalisers
MaxLen == 3
\* number of fragments a sample file name is made of
MaxParts == 2

(***************************************************************************)
(* Python values.                                                          *)
(***************************************************************************)
None == {}
Some(v) == {v}
Val(o) == CHOOSE v \in o : TRUE

\* bool(x) is False for None and for the empty str
FalsyText(o) == o = None \/ o = Some(<< >>)
\* bool(x) is False for None; a datetime.date is always true
FalsyDate(o) == o = None
\* bool(x) is False for None and for 0
FalsyInt(o) == o = None \/ o = Some(0)

\* row.get(k)
Get(row, k) == IF k \in DOMAIN row THEN row[k] ELSE None
\* row.get(k, d)
GetD(row, k, d) == IF k \in DOMAIN row THEN row[k] ELSE d

(***************************************************************************)
(* Characters.                                                             *)
(***************************************************************************)
LowerChars == <<"a","b","c","d","e","f","g","h","i","j","k","l","m",
                "n","o","p","q","r","s","t","u","v","w","x","y","z">>
UpperChars == <<"A","B","C","D","E","F","G","H","I","J","K","L","M",
                "N","O","P","Q","R","S","T","U","V","W","X","Y","Z">>
DigitChars == <<"0","1","2","3","4","5","6","7","8","9">>
SpaceChars == {" ", "\t", "\n"}

Range(s) == { s[i] : i \in DOMAIN s }

LowerSet == Range(LowerChars)
AlnumSet == Range(LowerChars) \cup Range(UpperChars) \cup Range(DigitChars)
UpperOfLower ==
    [c \in LowerSet |-> UpperChars[CHOOSE i \in DOMAIN LowerChars : LowerChars[i] = c]]

\* the character class [A-Za-z0-9] of the regular expression
IsAsciiAlnum(c) == c \in AlnumSet

\* str.upper() on one character
UpperChar(c) ==
    IF c \in LowerSet THEN UpperOfLower[c] ELSE IF c = "é" THEN "É" ELSE c

\* str.upper()
Upper(s) == [i \in DOMAIN s |-> UpperChar(s[i])]

\* re.sub(r"[^A-Za-z0-9]", "", raw)
KeepAlnum(s) == SelectSeq(s, IsAsciiAlnum)

RECURSIVE LStrip(_)
LStrip(s) == IF s # << >> /\ Head(s) \in SpaceChars THEN LStrip(Tail(s)) ELSE s

RECURSIVE RStrip(_)
RStrip(s) ==
    IF s # << >> /\ s[Len(s)] \in SpaceChars
    THEN RStrip(SubSeq(s, 1, Len(s) - 1))
    ELSE s

\* str.strip()
Strip(s) == RStrip(LStrip(s))

(***************************************************************************)
(* lot_utils.normalize_lot_id                                              *)
(***************************************************************************)
\* a normaliser that forgets to upper-case
normalize_lot_id_NoUpper(raw) ==
    IF raw = None THEN << >> ELSE KeepAlnum(Val(raw))

normalize_lot_id(raw) ==
    IF raw = None THEN << >> ELSE Upper(KeepAlnum(Val(raw)))

UNKNOWN == <<"U","N","K","N","O","W","N">>

\* canonical key of get_or_create_line / get_or_create_defect:
\*   if not x: x = "UNKNOWN";  canon = x.strip().upper()
CanonName(raw) == Upper(Strip(IF FalsyText(raw) THEN UNKNOWN ELSE Val(raw)))

\* str.isalnum() on one character: letters and digits of any script
IsAlnum(c) == c \in AlnumSet \cup {"é", "É"}

\* utils.normalize_lot_id: "".join(ch for ch in lot_id if ch.isalnum()).upper();
\* iterating over None raises TypeError
utils_normalize_lot_id(lot_id) ==
    IF lot_id = None
    THEN [raised |-> TRUE, value |-> << >>]
    ELSE [raised |-> FALSE, value |-> Upper(SelectSeq(Val(lot_id), IsAlnum))]


(***************************************************************************)
(* Tables.  A view is the record of the six tables a session reads: the    *)
(* committed rows together with the rows the session has flushed.          *)
(***************************************************************************)
EmptyTables ==
    [lots |-> {}, lines |-> {}, defects |-> {}, prod |-> {}, insp |-> {}, ship |-> {}]

TableNames == {"lots", "lines", "defects", "prod", "insp", "ship"}

Merge(a, b) == [t \in TableNames |-> a[t] \cup b[t]]
Minus(a, b) == [t \in TableNames |-> a[t] \ b[t]]

MaxOf(S) == CHOOSE m \in S : \A n \in S : n <= m

\* the integer primary key the storage engine gives the next inserted row
NextId(tbl) == IF tbl = {} THEN 1 ELSE MaxOf({ e.id : e \in tbl }) + 1

(***************************************************************************)
(* repository.get_or_create_lot / _line / _defect                          *)
(* Each returns [view, id, err]: the view after the call, the id of the    *)
(* entity returned, and err = TRUE when scalar_one_or_none() raises        *)
(* MultipleResultsFound.                                                   *)
(***************************************************************************)
\* a resolver that skips the lookup and always inserts
get_or_create_lot_AlwaysInsert(V, lot) ==
    LET normalized == normalize_lot_id(lot)
        new == [id |-> NextId(V.lots), lot |-> normalized]
    IN  [view |-> [V EXCEPT !.lots = @ \cup {new}], id |-> Some(new.id), err |-> FALSE]

get_or_create_lot(V, lot) ==
    LET normalized == normalize_lot_id(lot)
        existing == { e \in V.lots : e.lot = normalized }
        new == [id |-> NextId(V.lots), lot |-> normalized]
    IN  IF Cardinality(existing) > 1
        THEN [view |-> V, id |-> None, err |-> TRUE]
        ELSE IF existing # {}
        THEN [view |-> V, id |-> Some(Val(existing).id), err |-> FALSE]
        ELSE [view |-> [V EXCEPT !.lots = @ \cup {new}], id |-> Some(new.id), err |-> FALSE]

get_or_create_line(V, line) ==
    LET canon == CanonName(line)
        existing == { e \in V.lines : e.line = canon }
        new == [id |-> NextId(V.lines), line |-> canon]
    IN  IF Cardinality(existing) > 1
        THEN [view |-> V, id |-> None, err |-> TRUE]
        ELSE IF existing # {}
        THEN [view |-> V, id |-> Some(Val(existing).id), err |-> FALSE]
        ELSE [view |-> [V EXCEPT !.lines = @ \cup {new}], id |-> Some(new.id), err |-> FALSE]

\* a resolver that looks the raw code up before canonicalising it
get_or_create_defect_RawLookup(V, code) ==
    LET canon == CanonName(code)
        existing == { e \in V.defects : Some(e.defect_code) = code }
        new == [id |-> NextId(V.defects), defect_code |-> canon]
    IN  IF existing # {}
        THEN [view |-> V, id |-> Some(Val(existing).id), err |-> FALSE]
        ELSE [view |-> [V EXCEPT !.defects = @ \cup {new}], id |-> Some(new.id), err |-> FALSE]

get_or_create_defect(V, code) ==
    LET canon == CanonName(code)
        existing == { e \in V.defects : e.defect_code = canon }
        new == [id |-> NextId(V.defects), defect_code |-> canon]
    IN  IF Cardinality(existing) > 1
        THEN [view |-> V, id |-> None, err |-> TRUE]
        ELSE IF existing # {}
        THEN [view |-> V, id |-> Some(Val(existing).id), err |-> FALSE]
        ELSE [view |-> [V EXCEPT !.defects = @ \cup {new}], id |-> Some(new.id), err |-> FALSE]

(***************************************************************************)
(* services.import_*_data: the body of the loop for one row.               *)
(* L is [view, skipped, err]; the result is L after the iteration.         *)
(***************************************************************************)
ProductionRequired(row) ==
    ~ ( FalsyText(Get(row, "Lot_ID"))
        \/ FalsyDate(Get(row, "Production_Date"))
        \/ FalsyText(Get(row, "Production_Line")) )

InspectionRequired(row) ==
    ~ ( FalsyText(Get(row, "Lot_ID"))
        \/ FalsyDate(Get(row, "Inspection_Date"))
        \/ FalsyText(Get(row, "Production_Line")) )

ShippingRequired(row) ==
    ~ ( FalsyText(Get(row, "Lot_ID")) \/ FalsyDate(Get(row, "Ship_Date")) )

\* an importer that validates only the lot id
import_production_row_NoValidation(L, row) ==
    IF FalsyText(Get(row, "Lot_ID"))
    THEN [L EXCEPT !.skipped = @ + 1]
    ELSE LET lot == get_or_create_lot(L.view, Get(row, "Lot_ID"))
             line == get_or_create_line(lot.view, Get(row, "Production_Line"))
             record == [id |-> NextId(line.view.prod),
                        lot_id |-> lot.id,
                        production_line_id |-> line.id,
                        date |-> Get(row, "Production_Date")]
         IN  [L EXCEPT !.view = [line.view EXCEPT !.prod = @ \cup {record}]]

import_production_row(L, row) ==
    IF ~ ProductionRequired(row)
    THEN [L EXCEPT !.skipped = @ + 1]
    ELSE LET lot == get_or_create_lot(L.view, Get(row, "Lot_ID"))
             line == get_or_create_line(lot.view, Get(row, "Production_Line"))
             record == [id |-> NextId(line.view.prod),
                        lot_id |-> lot.id,
                        production_line_id |-> line.id,
                        date |-> Get(row, "Production_Date")]
         IN  IF lot.err \/ line.err
             THEN [L EXCEPT !.err = TRUE]
             ELSE [L EXCEPT !.view = [line.view EXCEPT !.prod = @ \cup {record}]]

\* the defect is resolved for every positive quantity, with or without a code
import_inspection_row_AlwaysResolves(L, row) ==
    IF ~ InspectionRequired(row)
    THEN [L EXCEPT !.skipped = @ + 1]
    ELSE LET lot == get_or_create_lot(L.view, Get(row, "Lot_ID"))
             line == get_or_create_line(lot.view, Get(row, "Production_Line"))
             qty == GetD(row, "Qty_Defects", Some(0))
             defect_code == Get(row, "Defect_Code")
             wantDefect == ~ FalsyInt(qty) /\ Val(qty) > 0
             defect == IF wantDefect
                       THEN get_or_create_defect(line.view, defect_code)
                       ELSE [view |-> line.view, id |-> None, err |-> FALSE]
             record == [id |-> NextId(defect.view.insp),
                        lot_id |-> lot.id,
                        production_line_id |-> line.id,
                        inspection_date |-> Get(row, "Inspection_Date"),
                        defect_id |-> defect.id,
                        qty_defects |-> qty]
         IN  IF lot.err \/ line.err \/ defect.err
             THEN [L EXCEPT !.err = TRUE]
             ELSE [L EXCEPT !.view = [defect.view EXCEPT !.insp = @ \cup {record}]]

import_inspection_row(L, row) ==
    IF ~ InspectionRequired(row)
    THEN [L EXCEPT !.skipped = @ + 1]
    ELSE LET lot == get_or_create_lot(L.view, Get(row, "Lot_ID"))
             line == get_or_create_line(lot.view, Get(row, "Production_Line"))
             qty == GetD(row, "Qty_Defects", Some(0))
             defect_code == Get(row, "Defect_Code")
             wantDefect == ~ FalsyInt(qty) /\ Val(qty) > 0 /\ ~ FalsyText(defect_code)
             defect == IF wantDefect
                       THEN get_or_create_defect(line.view, defect_code)
                       ELSE [view |-> line.view, id |-> None, err |-> FALSE]
             record == [id |-> NextId(defect.view.insp),
                        lot_id |-> lot.id,
                        production_line_id |-> line.id,
                        inspection_date |-> Get(row, "Inspection_Date"),
                        defect_id |-> defect.id,
                        qty_defects |-> qty]
         IN  IF lot.err \/ line.err \/ defect.err
             THEN [L EXCEPT !.err = TRUE]
             ELSE [L EXCEPT !.view = [defect.view EXCEPT !.insp = @ \cup {record}]]

Pending == <<"P","e","n","d","i","n","g">>
Shipped == <<"S","h","i","p","p","e","d">>

import_shipping_row(L, row) ==
    IF ~ ShippingRequired(row)
    THEN [L EXCEPT !.skipped = @ + 1]
    ELSE LET lot == get_or_create_lot(L.view, Get(row, "Lot_ID"))
             record == [id |-> NextId(lot.view.ship),
                        lot_id |-> lot.id,
                        ship_date |-> Get(row, "Ship_Date"),
                        ship_status |-> GetD(row, "Ship_Status", Some(Pending))]
         IN  IF lot.err
             THEN [L EXCEPT !.err = TRUE]
             ELSE [L EXCEPT !.view = [lot.view EXCEPT !.ship = @ \cup {record}]]

ImportKinds == {"production", "inspection", "shipping"}

import_row(kind, L, row) ==
    CASE kind = "production" -> import_production_row(L, row)
      [] kind = "inspection" -> import_inspection_row(L, row)
      [] kind = "shipping"   -> import_shipping_row(L, row)

Required(kind, row) ==
    CASE kind = "production" -> ProductionRequired(row)
      [] kind = "inspection" -> InspectionRequired(row)
      [] kind = "shipping"   -> ShippingRequired(row)

FactTable(kind) ==
    CASE kind = "production" -> "prod"
      [] kind = "inspection" -> "insp"
      [] kind = "shipping"   -> "ship"

(***************************************************************************)
(* State.                                                                  *)
(*   db    the committed tables                                            *)
(*   sess  per caller: the get_session scope it is in                      *)
(*     pc        "idle"  outside any scope                                 *)
(*               "block" inside the with-block (after yield session)       *)
(*               "commit" at session.commit()                              *)
(*               "rollback" in the except clause, at session.rollback()    *)
(*               "close" in the finally clause, at session.close()         *)
(*     kind      what the with-block is: an import, a direct use of the    *)
(*               resolvers, or a query                                     *)
(*     pend      rows added/flushed by the session and not yet committed   *)
(*     skipped   the importer's skipped counter                            *)
(*     ret       the last resolver call of the block: [dim, raw, id]       *)
(*     exc       an exception is propagating                               *)
(*     outcome   how the last scope ended for the caller                   *)
(*     result    the value a query returned                                *)
(*   History (read by the properties only):                                *)
(*     valid     rows of the call so far that had every required field     *)
(*     invalid   rows of the call so far that lacked a required field       *)
(*     dropped   the pending rows session.rollback() discarded             *)
(*     snap      the committed tables when the scope was entered           *)
(*     commits, rollbacks, closes   successful commit()s, rollback()s and  *)
(*               close()s of the scope                                     *)
(*     blockExc  the with-block raised                                     *)
(*   uses  number of scopes opened so far                                  *)
(*   fed   number of rows and resolver calls fed to with-blocks so far     *)
(***************************************************************************)
VARIABLES db, sess, uses, fed

vars == <<db, sess, uses, fed>>

Procs == {1, 2}

NoRet == [dim |-> "none", raw |-> None, id |-> None]
NoResult == [q |-> "none"]

IdleSession ==
    [pc |-> "idle", kind |-> "none", pend |-> EmptyTables, skipped |-> 0,
     ret |-> NoRet, exc |-> FALSE, outcome |-> "none", result |-> NoResult,
     valid |-> 0, invalid |-> 0, dropped |-> EmptyTables, snap |-> EmptyTables,
     commits |-> 0, rollbacks |-> 0, closes |-> 0, blockExc |-> FALSE]

\* what the session of p reads
View(p) == Merge(db, sess[p].pend)

Init ==
    /\ db = EmptyTables
    /\ sess = [p \in Procs |-> IdleSession]
    /\ uses = 0
    /\ fed = 0

(***************************************************************************)
(* database.get_session                                                    *)
(***************************************************************************)
\* session = SessionLocal(); yield session
Enter(p, kind) ==
    /\ sess[p].pc = "idle"
    /\ uses < MaxUses
    /\ uses' = uses + 1
    /\ sess' = [sess EXCEPT ![p] = [IdleSession EXCEPT !.pc = "block", !.kind = kind,
                                                        !.snap = db]]
    /\ UNCHANGED <<db, fed>>

\* the with-block ends without raising: control resumes after the yield
EndBlock(p) ==
    /\ sess[p].pc = "block"
    /\ sess[p].kind \in ImportKinds \cup {"direct"}
    /\ sess' = [sess EXCEPT ![p].pc = "commit"]
    /\ UNCHANGED <<db, uses, fed>>

\* session.commit() succeeds
CommitOk(p) ==
    /\ sess[p].pc = "commit"
    /\ db' = View(p)
    /\ sess' = [sess EXCEPT ![p].pc = "close", ![p].pend = EmptyTables,
                            ![p].commits = @ + 1]
    /\ UNCHANGED <<uses, fed>>

\* a scope without the except clause: a failed commit goes straight to close
CommitFails_NoRollback(p) ==
    /\ sess[p].pc = "commit"
    /\ sess' = [sess EXCEPT ![p].pc = "close", ![p].exc = TRUE]
    /\ UNCHANGED <<db, uses, fed>>

\* session.commit() raises
CommitFails(p) ==
    /\ sess[p].pc = "commit"
    /\ sess' = [sess EXCEPT ![p].pc = "rollback", ![p].exc = TRUE]
    /\ UNCHANGED <<db, uses, fed>>

\* an except clause that commits what was flushed instead of rolling back
Rollback_Commits(p) ==
    /\ sess[p].pc = "rollback"
    /\ db' = View(p)
    /\ sess' = [sess EXCEPT ![p].pc = "close", ![p].pend = EmptyTables,
                            ![p].rollbacks = @ + 1]
    /\ UNCHANGED <<uses, fed>>

\* except Exception: session.rollback(); raise
Rollback(p) ==
    /\ sess[p].pc = "rollback"
    /\ sess' = [sess EXCEPT ![p].pc = "close", ![p].pend = EmptyTables,
                            ![p].dropped = sess[p].pend,
                            ![p].rollbacks = @ + 1]
    /\ UNCHANGED <<db, uses, fed>>

\* finally: session.close(); control returns to the caller
Close(p) ==
    /\ sess[p].pc = "close"
    /\ sess' = [sess EXCEPT ![p].pc = "idle", ![p].closes = @ + 1,
                            ![p].outcome = IF sess[p].exc THEN "raised" ELSE "returned"]
    /\ UNCHANGED <<db, uses, fed>>

(***************************************************************************)
(* The with-blocks of services.import_*_data: one loop iteration.          *)
(***************************************************************************)
Loop(p) == [view |-> View(p), skipped |-> sess[p].skipped, err |-> FALSE]

\* the iteration runs to its end (or a resolver raises MultipleResultsFound)
ImportRow(p, row) ==
    /\ sess[p].pc = "block"
    /\ sess[p].kind \in ImportKinds
    /\ fed < MaxRows
    /\ fed' = fed + 1
    /\ LET L == import_row(sess[p].kind, Loop(p), row)
       IN  sess' = [sess EXCEPT
                ![p].pend = Minus(L.view, db),
                ![p].skipped = L.skipped,
                ![p].valid = @ + (IF Required(sess[p].kind, row) THEN 1 ELSE 0),
                ![p].invalid = @ + (IF Required(sess[p].kind, row) THEN 0 ELSE 1),
                ![p].pc = IF L.err THEN "rollback" ELSE "block",
                ![p].exc = L.err,
                ![p].blockExc = L.err]
    /\ UNCHANGED <<db, uses>>

\* the storage layer fails while the iteration persists the row: the rows
\* flushed so far stay pending and the exception leaves the with-block
ImportRowFails(p, row) ==
    /\ sess[p].pc = "block"
    /\ sess[p].kind \in ImportKinds
    /\ fed < MaxRows
    /\ fed' = fed + 1
    /\ Required(sess[p].kind, row)
    /\ LET L == import_row(sess[p].kind, Loop(p), row)
       IN  sess' = [sess EXCEPT
                ![p].pend = Minus(L.view, db),
                ![p].valid = @ + 1,
                ![p].pc = "rollback",
                ![p].exc = TRUE,
                ![p].blockExc = TRUE]
    /\ UNCHANGED <<db, uses>>

(***************************************************************************)
(* A with-block that calls the resolvers directly                          *)
(* (tests/test_services.py, test_shipping_lookup_and_lot_normalization).   *)
(***************************************************************************)
Resolve(dim, V, raw) ==
    CASE dim = "lot"    -> get_or_create_lot(V, raw)
      [] dim = "line"   -> get_or_create_line(V, raw)
      [] dim = "defect" -> get_or_create_defect(V, raw)

Dims == {"lot", "line", "defect"}

DirectResolve(p, dim, raw) ==
    /\ sess[p].pc = "block"
    /\ sess[p].kind = "direct"
    /\ fed < MaxRows
    /\ fed' = fed + 1
    /\ LET r == Resolve(dim, View(p), raw)
       IN  sess' = [sess EXCEPT
                ![p].pend = Minus(r.view, db),
                ![p].ret = [dim |-> dim, raw |-> raw, id |-> r.id],
                ![p].pc = IF r.err THEN "rollback" ELSE "block",
                ![p].exc = r.err,
                ![p].blockExc = r.err]
    /\ UNCHANGED <<db, uses>>

(***************************************************************************)
(* Inputs.                                                                 *)
(***************************************************************************)
\* date(2023, 1, 1).toordinal(), the first day of the seeded data
Day0 == 738521

\* "Lot-1" and "LOT 1" normalise alike; "-" normalises to ""
LotInputs ==
    { None, Some(<< >>), Some(<<"-">>), Some(<<"L","o","t","-","1">>),
      Some(<<"L","O","T"," ","1">>) }

DateInputs == { None, Some(Day0) }

LineInputs == { None, Some(<<"a">>), Some(<<" ","A">>), Some(<<" ">>) }

QtyInputs == { None, Some(0), Some(1) }

CodeInputs == { None, Some(<< >>), Some(<<"d","1">>), Some(<<"D","1"," ">>) }

StatusInputs == { Some(Shipped) }

\* rows of a production sheet; the last two lack a key altogether
ProductionRows ==
    { [Lot_ID |-> l, Production_Date |-> d, Production_Line |-> n] :
        l \in LotInputs, d \in DateInputs, n \in LineInputs }
    \cup { [Lot_ID |-> Some(<<"-">>), Production_Date |-> Some(Day0)], << >> }

InspectionRows ==
    { [Lot_ID |-> l, Inspection_Date |-> Some(Day0), Production_Line |-> Some(<<"a">>),
       Qty_Defects |-> q, Defect_Code |-> c] :
        l \in {None, Some(<<"L","o","t","-","1">>)}, q \in QtyInputs, c \in CodeInputs }
    \cup { [Lot_ID |-> Some(<<"L","O","T"," ","1">>), Inspection_Date |-> d,
            Production_Line |-> n] : d \in DateInputs, n \in LineInputs }

ShippingRows ==
    { [Lot_ID |-> l, Ship_Date |-> d, Ship_Status |-> st] :
        l \in LotInputs, d \in DateInputs, st \in StatusInputs }
    \cup { [Lot_ID |-> l, Ship_Date |-> Some(Day0)] : l \in LotInputs }
    \cup { [Ship_Date |-> Some(Day0)] }

RowsOf(kind) ==
    CASE kind = "production" -> ProductionRows
      [] kind = "inspection" -> InspectionRows
      [] kind = "shipping"   -> ShippingRows
      [] OTHER               -> {}

RawOf(dim) == IF dim = "lot" THEN LotInputs ELSE LineInputs \cup CodeInputs

(***************************************************************************)
(* Spec: one caller at a time runs imports and direct resolver blocks.     *)
(***************************************************************************)
Callers == {1}

Next ==
    \E p \in Callers :
        \/ \E kind \in ImportKinds \cup {"direct"} : Enter(p, kind)
        \/ \E row \in RowsOf(sess[p].kind) : ImportRow(p, row)
        \/ \E row \in RowsOf(sess[p].kind) : ImportRowFails(p, row)
        \/ \E dim \in Dims : \E raw \in RawOf(dim) : DirectResolve(p, dim, raw)
        \/ EndBlock(p)
        \/ CommitOk(p)
        \/ CommitFails(p)
        \/ Rollback(p)
        \/ Close(p)

Spec == Init /\ [][Next]_vars

(***************************************************************************)
(* repository.shipping_status_for_lot (services.lookup_shipment delegates  *)
(* to it).  The value is None or Some([shipped, ship_date]).  ORDER BY      *)
(* ship_date DESC LIMIT 1 leaves the choice among rows of equal ship_date  *)
(* to the storage engine, so the operator gives the set of values the call *)
(* can return.                                                             *)
(***************************************************************************)
LatestRows(rows) ==
    { r \in rows : \A o \in rows : Val(o.ship_date) <= Val(r.ship_date) }

\* a lookup that orders by ship_date ascending
shipping_status_for_lot_Oldest(V, lot_query) ==
    LET normalized == normalize_lot_id(lot_query)
        lot == { e \in V.lots : e.lot = normalized }
        rows == { r \in V.ship : lot # {} /\ r.lot_id = Some(Val(lot).id) }
        first == { r \in rows : \A o \in rows : Val(r.ship_date) <= Val(o.ship_date) }
    IN  IF lot = {} \/ rows = {}
        THEN { None }
        ELSE { Some([shipped |-> (r.ship_status = Some(Shipped)),
                     ship_date |-> Val(r.ship_date)]) : r \in first }

\* a lookup that queries the raw string
shipping_status_for_lot_RawQuery(V, lot_query) ==
    LET lot == { e \in V.lots : Some(e.lot) = lot_query }
        rows == { r \in V.ship : lot # {} /\ r.lot_id = Some(Val(lot).id) }
    IN  IF lot = {} \/ rows = {}
        THEN { None }
        ELSE { Some([shipped |-> (r.ship_status = Some(Shipped)),
                     ship_date |-> Val(r.ship_date)]) : r \in LatestRows(rows) }

\* a lookup that reports a Lot without shipping records as unshipped
shipping_status_for_lot_Unshipped(V, lot_query) ==
    LET normalized == normalize_lot_id(lot_query)
        lot == { e \in V.lots : e.lot = normalized }
        rows == { r \in V.ship : lot # {} /\ r.lot_id = Some(Val(lot).id) }
    IN  IF lot = {}
        THEN { None }
        ELSE IF rows = {}
        THEN { Some([shipped |-> FALSE, ship_date |-> 0]) }
        ELSE { Some([shipped |-> (r.ship_status = Some(Shipped)),
                     ship_date |-> Val(r.ship_date)]) : r \in LatestRows(rows) }

shipping_status_for_lot(V, lot_query) ==
    LET normalized == normalize_lot_id(lot_query)
        lot == { e \in V.lots : e.lot = normalized }
        rows == { r \in V.ship : lot # {} /\ r.lot_id = Some(Val(lot).id) }
    IN  IF lot = {}
        THEN { None }
        ELSE IF rows = {}
        THEN { None }
        ELSE { Some([shipped |-> (r.ship_status = Some(Shipped)),
                     ship_date |-> Val(r.ship_date)]) : r \in LatestRows(rows) }

\* with get_session() as sess: ... return: the block ends and commit follows
QueryLookup(p, lot_query) ==
    /\ sess[p].pc = "block"
    /\ sess[p].kind = "lookup"
    /\ IF Cardinality({ e \in View(p).lots : e.lot = normalize_lot_id(lot_query) }) > 1
       THEN \* scalar_one_or_none() raises MultipleResultsFound
            sess' = [sess EXCEPT ![p].pc = "rollback", ![p].exc = TRUE,
                                 ![p].blockExc = TRUE]
       ELSE \E v \in shipping_status_for_lot(View(p), lot_query) :
              sess' = [sess EXCEPT ![p].pc = "commit",
                          ![p].result = [q |-> "lookup", arg |-> lot_query, value |-> v]]
    /\ UNCHANGED <<db, uses, fed>>

(***************************************************************************)
(* ShipSpec: shipping and production imports followed by lot lookups.      *)
(***************************************************************************)
ShipLotInputs ==
    { None, Some(<<"L","o","t","-","1">>), Some(<<"L","O","T"," ","1">>), Some(<<"m","2">>) }

LookupInputs == ShipLotInputs \cup { Some(<<"l","o","t","1">>), Some(<<"n","o","t","-","a","-","l","o","t">>) }

ShipSpecRows(kind) ==
    CASE kind = "shipping" ->
            { [Lot_ID |-> l, Ship_Date |-> d, Ship_Status |-> st] :
                l \in ShipLotInputs, d \in { Some(Day0), Some(Day0 + 1) },
                st \in { Some(Shipped), Some(Pending), Some(<<"s","h","i","p","p","e","d">>) } }
            \cup { [Lot_ID |-> Some(<<"m","2">>), Ship_Date |-> Some(Day0 + 1)] }
      [] kind = "production" ->
            { [Lot_ID |-> l, Production_Date |-> Some(Day0), Production_Line |-> Some(<<"a">>)] :
                l \in ShipLotInputs }
      [] OTHER -> {}

ShipNext ==
    \E p \in Callers :
        \/ \E kind \in {"shipping", "production", "lookup"} : Enter(p, kind)
        \/ \E row \in ShipSpecRows(sess[p].kind) : ImportRow(p, row)
        \/ \E q \in LookupInputs : QueryLookup(p, q)
        \/ EndBlock(p)
        \/ CommitOk(p)
        \/ Close(p)

ShipSpec == Init /\ [][ShipNext]_vars

(***************************************************************************)
(* repository.summary_defects_by_line (services.get_defect_summary         *)
(* delegates to it).                                                       *)
(***************************************************************************)
RECURSIVE SumQty(_)
\* SUM(qty_defects): NULLs are ignored; int(r[1] or 0) turns a NULL sum into 0
SumQty(recs) ==
    IF recs = {} THEN 0
    ELSE LET r == CHOOSE x \in recs : TRUE
         IN  (IF r.qty_defects = None THEN 0 ELSE Val(r.qty_defects)) + SumQty(recs \ {r})

\* the WHERE clauses on inspection_date
InRange(d, start, end) ==
    /\ (start # None => d # None /\ Val(d) >= Val(start))
    /\ (end # None => d # None /\ Val(d) <= Val(end))

\* a summary whose end bound is exclusive
SummaryGroups_EndExclusive(V, start, end, line) ==
    LET joined(ln) == { r \in V.insp :
                           /\ r.production_line_id = Some(ln.id)
                           /\ (start # None => Val(r.inspection_date) >= Val(start))
                           /\ (end # None => Val(r.inspection_date) < Val(end)) }
        kept == { ln \in V.lines :
                    /\ joined(ln) # {}
                    /\ (~ FalsyText(line) => Upper(ln.line) = Upper(Strip(Val(line)))) }
    IN  { <<ln.line, SumQty(joined(ln))>> : ln \in kept }

\* the rows of the grouped join: (line, SUM(qty_defects)) GROUP BY line
SummaryGroups(V, start, end, line) ==
    LET joined(ln) == { r \in V.insp :
                           /\ r.production_line_id = Some(ln.id)
                           /\ InRange(r.inspection_date, start, end) }
        kept == { ln \in V.lines :
                    /\ joined(ln) # {}
                    /\ (~ FalsyText(line) => Upper(ln.line) = Upper(Strip(Val(line)))) }
    IN  { <<ln.line, SumQty(joined(ln))>> : ln \in kept }

\* every listing of a set, each element once
Listings(S) ==
    { f \in [1..Cardinality(S) -> S] : \A i, j \in 1..Cardinality(S) : f[i] = f[j] => i = j }

\* ORDER BY SUM(qty_defects) DESC: the order among equal totals is the
\* storage engine's, so the call can return any of these lists
summary_defects_by_line(V, start, end, line) ==
    { f \in Listings(SummaryGroups(V, start, end, line)) :
        \A i, j \in DOMAIN f : i < j => f[i][2] >= f[j][2] }

QuerySummary(p, start, end, line) ==
    /\ sess[p].pc = "block"
    /\ sess[p].kind = "summary"
    /\ \E v \in summary_defects_by_line(View(p), start, end, line) :
          sess' = [sess EXCEPT ![p].pc = "commit",
                      ![p].result = [q |-> "summary", start |-> start, end |-> end,
                                     line |-> line, value |-> v]]
    /\ UNCHANGED <<db, uses, fed>>

(***************************************************************************)
(* tests/test_services.py seed_inspection: 14 days x 3 lines from          *)
(* 2023-01-01, Qty_Defects 1, Defect_Code D1 on even and D2 on odd days.   *)
(***************************************************************************)
SeedDays == 14
SeedLines == << <<"A">>, <<"B">>, <<"C">> >>

\* f"L{i:03}"
SeedLot(i) ==
    <<"L", DigitChars[((i \div 100) % 10) + 1], DigitChars[((i \div 10) % 10) + 1],
      DigitChars[(i % 10) + 1]>>

SeedRow(i, line) ==
    [Lot_ID |-> Some(SeedLot(i)),
     Production_Line |-> Some(line),
     Inspection_Date |-> Some(Day0 + i),
     Inspection_Time |-> None,
     Defect_Code |-> Some(IF i % 2 = 0 THEN <<"D","1">> ELSE <<"D","2">>),
     Qty_Defects |-> Some(1),
     Disposition |-> None,
     Notes |-> None]

\* rows in the order the two nested loops append them
SeedRows ==
    [k \in 1..(SeedDays * Len(SeedLines)) |->
        SeedRow((k - 1) \div Len(SeedLines), SeedLines[((k - 1) % Len(SeedLines)) + 1])]

\* the for-loop of import_inspection_data over the seeded rows: the loop
\* state after k rows
SeedLoop[k \in 0..Len(SeedRows)] ==
    IF k = 0
    THEN [view |-> EmptyTables, skipped |-> 0, err |-> FALSE]
    ELSE LET L == SeedLoop[k - 1]
         IN  IF L.err THEN L ELSE import_row("inspection", L, SeedRows[k])

\* the committed tables after seed_inspection() on an empty database
SeededTables == SeedLoop[Len(SeedRows)].view

\* seed_inspection(): one import_inspection_data call that commits
SeedInspection ==
    /\ db = EmptyTables
    /\ uses = 0
    /\ \A p \in Procs : sess[p].pc = "idle"
    /\ db' = SeededTables
    /\ uses' = uses + 1
    /\ UNCHANGED <<sess, fed>>

(***************************************************************************)
(* SummarySpec: inspection imports (or the seeded data) followed by        *)
(* defect summaries.                                                       *)
(***************************************************************************)
SummaryRows ==
    { [Lot_ID |-> Some(<<"m","2">>), Inspection_Date |-> d, Production_Line |-> n,
       Qty_Defects |-> q, Defect_Code |-> Some(<<"d","1">>)] :
        d \in { Some(Day0), Some(Day0 + 1) },
        n \in { Some(<<"a">>), Some(<<"B">>) },
        q \in { Some(1), Some(2) } }
    \cup { [Lot_ID |-> Some(<<"m","2">>), Inspection_Date |-> Some(Day0),
            Production_Line |-> Some(<<"a">>), Qty_Defects |-> None] }

SummaryStarts == { None, Some(Day0), Some(Day0 + 1) }
SummaryEnds == { None, Some(Day0), Some(Day0 + 6) }
SummaryLines ==
    { None, Some(<< >>), Some(<<"B">>), Some(<<"b">>), Some(<<" ","b"," ">>), Some(<<"Z">>) }

SummaryNext ==
    \/ SeedInspection
    \/ \E p \in Callers :
        \/ \E kind \in {"inspection", "summary"} : Enter(p, kind)
        \/ \E row \in SummaryRows : ImportRow(p, row)
        \/ \E st \in SummaryStarts : \E en \in SummaryEnds : \E ln \in SummaryLines :
              QuerySummary(p, st, en, ln)
        \/ EndBlock(p)
        \/ CommitOk(p)
        \/ Close(p)

SummarySpec == Init /\ [][SummaryNext]_vars

(***************************************************************************)
(* repository.trending_defects (services.get_defect_trends delegates to    *)
(* it).                                                                    *)
(***************************************************************************)
\* date(y, 1, 1).toordinal()
Jan1Ordinal(y) ==
    LET b == y - 1 IN b * 365 + (b \div 4) - (b \div 100) + (b \div 400) + 1

Years == 2020..2026

\* date.fromordinal(d).year
YearOf(d) == CHOOSE y \in Years : Jan1Ordinal(y) <= d /\ d < Jan1Ordinal(y + 1)

\* Monday of ISO week 1 of a year: the week holding the year's first Thursday
IsoWeek1Monday(y) ==
    LET firstday == Jan1Ordinal(y)
        firstweekday == (firstday + 6) % 7
        monday == firstday - firstweekday
    IN  IF firstweekday > 3 THEN monday + 7 ELSE monday

\* week numbers counted from the first of January
isocalendar_FromJanuaryFirst(d) ==
    <<YearOf(d), ((d - Jan1Ordinal(YearOf(d))) \div 7) + 1>>

\* date.isocalendar()[:2]: (ISO year, ISO week)
isocalendar(d) ==
    LET y == YearOf(d)
        w == (d - IsoWeek1Monday(y)) \div 7
    IN  IF d < IsoWeek1Monday(y)
        THEN <<y - 1, ((d - IsoWeek1Monday(y - 1)) \div 7) + 1>>
        ELSE IF w >= 52 /\ d >= IsoWeek1Monday(y + 1)
        THEN <<y + 1, 1>>
        ELSE <<y, w + 1>>

RECURSIVE Digits(_)
\* str(n) for n >= 0
Digits(n) ==
    IF n < 10 THEN <<DigitChars[n + 1]>> ELSE Digits(n \div 10) \o <<DigitChars[(n % 10) + 1]>>

\* f"{year}-W{week:02}"
WeekLabel(d) ==
    LET yw == isocalendar(d)
    IN  Digits(yw[1]) \o <<"-", "W">>
          \o (IF yw[2] < 10 THEN <<"0">> ELSE << >>) \o Digits(yw[2])

\* the characters of the model in code point order
CodePoints ==
    <<"\t", "\n", " ", "-">> \o DigitChars \o UpperChars \o <<"_">> \o LowerChars

Ord(c) == CHOOSE i \in DOMAIN CodePoints : CodePoints[i] = c

RECURSIVE TextLess(_, _)
\* a < b for two str
TextLess(a, b) ==
    IF b = << >> THEN FALSE
    ELSE IF a = << >> THEN TRUE
    ELSE IF Head(a) = Head(b) THEN TextLess(Tail(a), Tail(b))
    ELSE Ord(Head(a)) < Ord(Head(b))

\* a < b for two (week_str, defect_code) tuples
KeyLess(a, b) == TextLess(a[1], b[1]) \/ (a[1] = b[1] /\ TextLess(a[2], b[2]))

RECURSIVE SortedKeys(_)
\* sorted(keys)
SortedKeys(S) ==
    IF S = {} THEN << >>
    ELSE LET m == CHOOSE x \in S : \A y \in S \ {x} : KeyLess(x, y)
         IN  <<m>> \o SortedKeys(S \ {m})

\* the joined rows: (inspection record, defect code), filtered by date
TrendRows(V, start, end) ==
    { <<r, e.defect_code>> : r \in V.insp, e \in V.defects } \cap
    { x \in V.insp \X { e.defect_code : e \in V.defects } :
        /\ \E e \in V.defects : x[1].defect_id = Some(e.id) /\ e.defect_code = x[2]
        /\ InRange(x[1].inspection_date, start, end)
        /\ x[1].inspection_date # None }

\* counts[key] += 1: the records of a key are counted, not their quantities
trending_defects_CountsRecords(V, start, end) ==
    LET rows == TrendRows(V, start, end)
        key(x) == <<WeekLabel(Val(x[1].inspection_date)), x[2]>>
        keys == { key(x) : x \in rows }
        order == SortedKeys(keys)
    IN  [i \in DOMAIN order |->
            <<order[i][1], order[i][2], Cardinality({ y \in rows : key(y) = order[i] })>>]

trending_defects(V, start, end) ==
    LET rows == TrendRows(V, start, end)
        key(x) == <<WeekLabel(Val(x[1].inspection_date)), x[2]>>
        keys == { key(x) : x \in rows }
        total(k) == SumQty({ x[1] : x \in { y \in rows : key(y) = k } })
        order == SortedKeys(keys)
    IN  [i \in DOMAIN order |-> <<order[i][1], order[i][2], total(order[i])>>]

QueryTrend(p, start, end) ==
    /\ sess[p].pc = "block"
    /\ sess[p].kind = "trend"
    /\ sess' = [sess EXCEPT ![p].pc = "commit",
                    ![p].result = [q |-> "trend", start |-> start, end |-> end,
                                   value |-> trending_defects(View(p), start, end)]]
    /\ UNCHANGED <<db, uses, fed>>

(***************************************************************************)
(* TrendSpec: inspection imports (or the seeded data) followed by weekly   *)
(* trend queries.  2023-01-01 is a Sunday: Day0 and Day0 + 1 lie in        *)
(* different ISO weeks.                                                    *)
(***************************************************************************)
TrendSpecRows ==
    { [Lot_ID |-> Some(<<"m","2">>), Inspection_Date |-> d, Production_Line |-> Some(<<"a">>),
       Qty_Defects |-> x[1], Defect_Code |-> x[2]] :
        d \in { Some(Day0), Some(Day0 + 1) },
        x \in { <<Some(1), Some(<<"d","1">>)>>, <<Some(2), Some(<<"d","1">>)>>,
                <<Some(1), Some(<<"D","2">>)>>, <<Some(1), None>>,
                <<None, Some(<<"d","1">>)>> } }

TrendStarts == { None, Some(Day0), Some(Day0 + 1) }
TrendEnds == { None, Some(Day0), Some(Day0 + 13) }

TrendNext ==
    \/ SeedInspection
    \/ \E p \in Callers :
        \/ \E kind \in {"inspection", "trend"} : Enter(p, kind)
        \/ \E row \in TrendSpecRows : ImportRow(p, row)
        \/ \E st \in TrendStarts : \E en \in TrendEnds : QueryTrend(p, st, en)
        \/ EndBlock(p)
        \/ CommitOk(p)
        \/ Close(p)

TrendSpec == Init /\ [][TrendNext]_vars

(***************************************************************************)
(* NormSpec: the two lot normalisers applied to every string of at most    *)
(* MaxLen characters, to None and to the documented examples.              *)
(***************************************************************************)
NormChars == {"a", "A", "1", "-", "é", "É"}
Texts(n) == UNION { [1..k -> NormChars] : k \in 0..n }
Lot001A == <<"L","o","t","-","0","0","1"," ","A">>
LOT_001A == <<"L","O","T"," ","0","0","1","A">>
NormInputs == {None} \cup { Some(t) : t \in Texts(MaxLen) \cup {Lot001A, LOT_001A} }

Normalize(p, raw) ==
    /\ sess[p].pc = "idle"
    /\ sess' = [sess EXCEPT ![p].result =
                    [q |-> "normalize", arg |-> raw,
                     value |-> normalize_lot_id(raw),
                     utils |-> utils_normalize_lot_id(raw)]]
    /\ UNCHANGED <<db, uses, fed>>

NormNext == \E p \in Callers : \E raw \in NormInputs : Normalize(p, raw)

NormSpec == Init /\ [][NormNext]_vars

(***************************************************************************)
(* Properties of the resolvers, the importers and the transactional scope. *)
(***************************************************************************)
KeyUnique(tbl, col) == \A a, b \in tbl : a[col] = b[col] => a = b

KeyOf(dim, raw) == IF dim = "lot" THEN normalize_lot_id(raw) ELSE CanonName(raw)

DimTable(dim) ==
    CASE dim = "lot" -> "lots" [] dim = "line" -> "lines" [] dim = "defect" -> "defects"

DimCol(dim) ==
    CASE dim = "lot" -> "lot" [] dim = "line" -> "line" [] dim = "defect" -> "defect_code"

\* C1: after any sequence of single-threaded resolver calls and imports, no
\* two Lot, ProductionLine or Defect entities a session can see share a
\* canonical key (or a primary key); the entity a resolver returned carries
\* the canonical key of its argument; and resolving a and then b, where a and
\* b canonicalise alike, returns the same entity and inserts nothing for b.
C1_UniqueStableResolution ==
    \A p \in Callers :
        LET V == View(p)
            r == sess[p].ret
        IN  /\ \A dim \in Dims :
                /\ KeyUnique(V[DimTable(dim)], DimCol(dim))
                /\ KeyUnique(V[DimTable(dim)], "id")
            /\ (r.dim # "none" /\ sess[p].pc \in {"block", "commit"}) =>
                  \E e \in V[DimTable(r.dim)] :
                      Some(e.id) = r.id /\ e[DimCol(r.dim)] = KeyOf(r.dim, r.raw)
            /\ (sess[p].pc = "block" /\ sess[p].kind = "direct") =>
                \A dim \in Dims : \A a, b \in RawOf(dim) :
                  KeyOf(dim, a) = KeyOf(dim, b) =>
                      LET r1 == Resolve(dim, V, a)
                          r2 == Resolve(dim, r1.view, b)
                      IN  ~ r1.err /\ ~ r2.err /\ r2.id = r1.id /\ r2.view = r1.view

\* C1 witness: "LOT 1" was resolved in a block to the committed Lot that an
\* earlier scope had created.
C1_Witness ==
    /\ sess[1].pc = "block"
    /\ sess[1].ret.dim = "lot"
    /\ sess[1].ret.raw = Some(<<"L","O","T"," ","1">>)
    /\ sess[1].pend.lots = {}
    /\ \E e \in db.lots : e.lot = <<"L","O","T","1">> /\ Some(e.id) = sess[1].ret.id

\* C2: when an import call fails (a row's persistence or the final commit
\* raises) the exception reaches the caller and the committed tables are what
\* they were when the call began; they never change while the call is in
\* flight or failing.
C2_FailedImportLeavesStore ==
    \A p \in Callers :
        sess[p].kind \in ImportKinds =>
            /\ (sess[p].exc => db = sess[p].snap)
            /\ (sess[p].pc \in {"block", "commit", "rollback"} => db = sess[p].snap)
            /\ (sess[p].pc = "idle" /\ sess[p].exc) =>
                  /\ sess[p].outcome = "raised"
                  /\ sess[p].pend = EmptyTables
                  /\ sess[p].commits = 0

\* C2 witness: an import over a non-empty store failed at a row after it had
\* flushed a new Lot, a new ProductionLine and a fact; the caller got the
\* exception.
C2_Witness ==
    /\ sess[1].pc = "idle"
    /\ sess[1].outcome = "raised"
    /\ sess[1].kind \in ImportKinds
    /\ sess[1].blockExc
    /\ sess[1].dropped.lots # {}
    /\ sess[1].dropped.lines # {}
    /\ sess[1].dropped.prod # {}
    /\ db # EmptyTables
    /\ db = sess[1].snap

\* C3: in every get_session scope commit() succeeds only if the block did
\* not raise; if the block or commit() raised, rollback() ran once and the
\* exception reaches the caller; a successful commit and a rollback never
\* both happen; close() has run exactly once when control is back with the
\* caller and not before.
C3_SessionScope ==
    \A p \in Callers :
        LET x == sess[p]
        IN  /\ x.commits <= 1 /\ x.rollbacks <= 1 /\ x.closes <= 1
            /\ (x.commits = 1 => ~ x.blockExc /\ ~ x.exc)
            /\ ~ (x.commits = 1 /\ x.rollbacks = 1)
            /\ (x.blockExc => x.exc)
            /\ ((x.exc /\ x.pc \in {"close", "idle"}) => x.rollbacks = 1)
            /\ (x.rollbacks = 1 => x.exc)
            /\ (x.pc = "close" => x.commits + x.rollbacks = 1)
            /\ (x.pc # "idle" => x.closes = 0 /\ x.outcome = "none")
            /\ ((x.pc = "idle" /\ x.kind # "none") =>
                  /\ x.closes = 1
                  /\ x.commits + x.rollbacks = 1
                  /\ (x.outcome = "raised" <=> x.exc)
                  /\ (x.outcome = "returned" <=> x.commits = 1))

\* C3 witness: a scope whose commit() raised after a block that did not
\* raise has been rolled back, closed once and has re-raised.
C3_Witness ==
    /\ sess[1].pc = "idle"
    /\ sess[1].outcome = "raised"
    /\ ~ sess[1].blockExc
    /\ sess[1].rollbacks = 1
    /\ sess[1].closes = 1
    /\ sess[1].commits = 0

DimsOf(V) == [lots |-> V.lots, lines |-> V.lines, defects |-> V.defects]

\* C4: a row lacking a required field adds no fact and no dimension entity,
\* raises nothing and adds one to the skipped counter; while an import runs
\* its pending facts number the rows that had every required field and its
\* skipped counter the other rows; when the call has returned, the fact table
\* has grown by exactly the number of rows that had every required field.
C4_SkipIncompleteRows ==
    \A p \in Callers :
        LET x == sess[p]
            ft == FactTable(x.kind)
        IN  x.kind \in ImportKinds =>
              /\ x.skipped = x.invalid
              /\ (x.pc \in {"block", "commit"} => Cardinality(x.pend[ft]) = x.valid)
              /\ (x.pc = "idle" /\ x.outcome = "returned") =>
                    Cardinality(db[ft]) = Cardinality(x.snap[ft]) + x.valid
              /\ (x.pc = "idle" /\ x.outcome = "returned") =>
                    \A t \in TableNames \ {ft, "lots", "lines", "defects"} : db[t] = x.snap[t]
              /\ \A row \in RowsOf(x.kind) :
                    (x.pc = "block" /\ ~ Required(x.kind, row)) =>
                        import_row(x.kind, Loop(p), row) =
                            [Loop(p) EXCEPT !.skipped = @ + 1]

\* C4 witness: a production import has returned after skipping one row
\* (whose date was missing) and storing another.
C4_Witness ==
    /\ sess[1].pc = "idle"
    /\ sess[1].outcome = "returned"
    /\ sess[1].kind = "production"
    /\ sess[1].skipped = 1
    /\ sess[1].valid = 1
    /\ Cardinality(db.prod) = Cardinality(sess[1].snap.prod) + 1

\* the columns of a fact other than its primary key
SameButId(a, b) == [a EXCEPT !.id = 0] = [b EXCEPT !.id = 0]

\* C5: handing the same complete row to an importer twice, at any point of
\* an import call, adds two fact records that agree in every column but
\* the primary key (the same Lot, ProductionLine and Defect references), and
\* the second import adds no dimension entity.  (A with-block is entered from
\* every committed store, so the rows of one call and of successive calls
\* are both covered.)
C5_SameRowTwice ==
    \A p \in Callers : \A row \in RowsOf(sess[p].kind) :
        (sess[p].pc = "block" /\ Required(sess[p].kind, row)) =>
            LET kind == sess[p].kind
                ft == FactTable(kind)
                L0 == Loop(p)
                L1 == import_row(kind, L0, row)
                L2 == import_row(kind, L1, row)
                f1 == L1.view[ft] \ L0.view[ft]
                f2 == L2.view[ft] \ L1.view[ft]
            IN  /\ ~ L1.err /\ ~ L2.err
                /\ Cardinality(f1) = 1 /\ Cardinality(f2) = 1
                /\ Cardinality(L2.view[ft]) = Cardinality(L0.view[ft]) + 2
                /\ SameButId(Val(f1), Val(f2))
                /\ Val(f1).id # Val(f2).id
                /\ DimsOf(L2.view) = DimsOf(L1.view)
                /\ L2.skipped = L0.skipped

\* C5 witness: two inspection records from the same row, imported in two
\* calls, reference the one Lot, the one ProductionLine and the one Defect.
C5_Witness ==
    /\ sess[1].pc = "idle"
    /\ uses = 2
    /\ Cardinality(sess[1].snap.insp) = 1
    /\ Cardinality(db.insp) = 2
    /\ \A a, b \in db.insp : SameButId(a, b) /\ a.defect_id # None
    /\ Cardinality(db.lots) = 1
    /\ Cardinality(db.lines) = 1
    /\ Cardinality(db.defects) = 1

(***************************************************************************)
(* Properties of the shipment lookup (checked under ShipSpec).             *)
(***************************************************************************)
\* the shipping records of the Lot whose canonical identifier is key
ShipRowsOfLot(V, key) ==
    { r \in V.ship : \E e \in V.lots : e.lot = key /\ r.lot_id = Some(e.id) }

ValidShipRowsFor(l) ==
    { row \in ShipSpecRows("shipping") : Get(row, "Lot_ID") = l }

\* C6: a lookup whose query normalises to the identifier of a Lot that has
\* shipping records returns a shipment of that Lot, never the no-data result;
\* and at any point of a shipping import, storing a record under raw string a
\* makes every lookup of a raw string b with the same normal form return a
\* shipment dated no earlier than that record.
C6_LookupNormalised ==
    \A p \in Callers :
        LET x == sess[p]
        IN  /\ x.result.q = "lookup" =>
                LET rows == ShipRowsOfLot(db, normalize_lot_id(x.result.arg))
                IN  rows # {} =>
                      /\ x.result.value # None
                      /\ \E r \in rows : Val(x.result.value).ship_date = Val(r.ship_date)
            /\ (x.pc = "block" /\ x.kind = "shipping") =>
                \A row \in ShipSpecRows("shipping") : \A b \in LookupInputs :
                    ( ShippingRequired(row)
                      /\ normalize_lot_id(b) = normalize_lot_id(Get(row, "Lot_ID")) ) =>
                        \A v \in shipping_status_for_lot(
                                     import_shipping_row(Loop(p), row).view, b) :
                            /\ v # None
                            /\ Val(v).ship_date >= Val(Get(row, "Ship_Date"))

\* C6 witness: "lot1", a string no import used, found the shipment stored
\* under "Lot-1" or "LOT 1".
C6_Witness ==
    /\ sess[1].pc = "idle"
    /\ sess[1].outcome = "returned"
    /\ sess[1].result.q = "lookup"
    /\ sess[1].result.arg = Some(<<"l","o","t","1">>)
    /\ sess[1].result.value = Some([shipped |-> TRUE, ship_date |-> Day0])
    /\ \E e \in db.lots : e.lot = <<"L","O","T","1">>

\* C7 as stated: the lookup returns the no-data result exactly when no Lot
\* exists for the normalised query.
C7_NoneIffNoLot ==
    \A p \in Callers :
        sess[p].result.q = "lookup" =>
            ( sess[p].result.value = None
              <=> ~ \E e \in db.lots : e.lot = normalize_lot_id(sess[p].result.arg) )

\* C7 amended: the lookup returns the no-data result exactly when no Lot
\* exists for the normalised query or that Lot has no shipping record.
C7_NoneIffNoShipment ==
    \A p \in Callers :
        sess[p].result.q = "lookup" =>
            ( sess[p].result.value = None
              <=> ShipRowsOfLot(db, normalize_lot_id(sess[p].result.arg)) = {} )

\* C7 witness: a Lot created by a production import, with no shipping record,
\* was looked up and the call returned None.
C7_Witness ==
    /\ sess[1].pc = "idle"
    /\ sess[1].outcome = "returned"
    /\ sess[1].result.q = "lookup"
    /\ sess[1].result.value = None
    /\ \E e \in db.lots :
          /\ e.lot = normalize_lot_id(sess[1].result.arg)
          /\ \E r \in db.prod : r.lot_id = Some(e.id)

IsShipped(r) == r.ship_status = Some(Shipped)

\* C8 as stated: for a Lot with shipping records the lookup returns the
\* greatest ship date and is_shipped is the status test of the record with
\* that date, whichever way the records were inserted (one possible value).
C8_StatusOfTheLatest ==
    \A p \in Callers :
        sess[p].result.q = "lookup" =>
            LET rows == ShipRowsOfLot(db, normalize_lot_id(sess[p].result.arg))
                v == sess[p].result.value
            IN  rows # {} =>
                  /\ v # None
                  /\ \A r \in rows : Val(r.ship_date) <= Val(v).ship_date
                  /\ \A r \in LatestRows(rows) : Val(v).shipped <=> IsShipped(r)
                  /\ Cardinality(shipping_status_for_lot(db, sess[p].result.arg)) = 1

\* C8 amended: for a Lot with shipping records the lookup returns the
\* greatest ship date of the Lot, and is_shipped is the test status = "Shipped"
\* of one of the records with that date; when the records with that date
\* agree in that test the result is determined by the set of records (so by
\* no insertion order): importing two rows in either order gives the same
\* lookup results.
C8_LatestShipment ==
    \A p \in Callers :
        /\ sess[p].result.q = "lookup" =>
            LET rows == ShipRowsOfLot(db, normalize_lot_id(sess[p].result.arg))
                v == sess[p].result.value
            IN  rows # {} =>
                  /\ v # None
                  /\ \E r \in rows : Val(r.ship_date) = Val(v).ship_date
                  /\ \A r \in rows : Val(r.ship_date) <= Val(v).ship_date
                  /\ \E r \in LatestRows(rows) : Val(v).shipped <=> IsShipped(r)
                  /\ (\A a, b \in LatestRows(rows) : IsShipped(a) <=> IsShipped(b)) =>
                        shipping_status_for_lot(db, sess[p].result.arg) = { v }
        /\ (sess[p].pc = "block" /\ sess[p].kind = "shipping") =>
            \A l \in { Some(<<"L","o","t","-","1">>) } :
            \A r1, r2 \in ValidShipRowsFor(l) :
                LET V12 == import_shipping_row(import_shipping_row(Loop(p), r1), r2).view
                    V21 == import_shipping_row(import_shipping_row(Loop(p), r2), r1).view
                    latest == LatestRows(ShipRowsOfLot(V12, normalize_lot_id(l)))
                IN  /\ shipping_status_for_lot(V12, l) = shipping_status_for_lot(V21, l)
                    /\ (\A a, b \in latest : IsShipped(a) <=> IsShipped(b)) =>
                          Cardinality(shipping_status_for_lot(V12, l)) = 1

\* C8 witness: of two records of one Lot the later one is not "Shipped" (the
\* earlier one is), and the lookup returned (False, later date).
C8_Witness ==
    /\ sess[1].pc = "idle"
    /\ sess[1].outcome = "returned"
    /\ sess[1].result.q = "lookup"
    /\ sess[1].result.value = Some([shipped |-> FALSE, ship_date |-> Day0 + 1])
    /\ \E a, b \in ShipRowsOfLot(db, normalize_lot_id(sess[1].result.arg)) :
          /\ a.ship_date = Some(Day0) /\ IsShipped(a)
          /\ b.ship_date = Some(Day0 + 1) /\ ~ IsShipped(b)

(***************************************************************************)
(* Properties of the defect summary (checked under SummarySpec).           *)
(***************************************************************************)
EqIgnoreCase(name, filter) == Upper(name) = Upper(filter)
EqTrimmedIgnoreCase(name, filter) == Upper(name) = Upper(Strip(filter))

\* the inspection records of line ln dated within [start, end]
RecordsInRange(V, ln, start, end) ==
    { r \in V.insp :
        /\ r.production_line_id = Some(ln.id)
        /\ (start = None \/ Val(r.inspection_date) >= Val(start))
        /\ (end = None \/ Val(r.inspection_date) <= Val(end)) }

Week1 == [start |-> Some(Day0), end |-> Some(Day0 + 6)]

\* the summary lists exactly one (name, total) pair per line that has a
\* record in range and whose name Matches the filter (when one is given), in
\* non-increasing order of total; and the two seeded queries give 7 per line
SummaryIsRight(Matches(_, _)) ==
    \A p \in Callers :
        LET q == sess[p].result
        IN  q.q = "summary" =>
              LET v == q.value
                  want == { ln \in db.lines :
                              /\ RecordsInRange(db, ln, q.start, q.end) # {}
                              /\ (~ FalsyText(q.line) => Matches(ln.line, Val(q.line))) }
              IN  /\ Len(v) = Cardinality(want)
                  /\ \A ln \in want : \E i \in DOMAIN v :
                        v[i] = <<ln.line, SumQty(RecordsInRange(db, ln, q.start, q.end))>>
                  /\ \A i, j \in DOMAIN v : i < j => v[i][2] >= v[j][2]
                  /\ (db = SeededTables /\ q.start = Week1.start /\ q.end = Week1.end) =>
                        /\ (q.line = Some(<<"B">>) => v = << <<(<<"B">>), 7>> >>)
                        /\ (q.line = None =>
                              Range(v) = { <<(<<"A">>), 7>>, <<(<<"B">>), 7>>, <<(<<"C">>), 7>> })

\* C9 as stated: the line filter keeps the lines whose name equals the filter
\* ignoring case.
C9_FilterEqualsIgnoringCase == SummaryIsRight(EqIgnoreCase)

\* C9 amended: the line filter keeps the lines whose name equals the filter
\* with its surrounding whitespace removed, ignoring case; the rest of the
\* claim (one pair per line with a record in the inclusive range, totals,
\* non-increasing order, the two seeded results) as stated.
C9_SummaryByLine == SummaryIsRight(EqTrimmedIgnoreCase)

\* C9 witness: on the seeded data the first week filtered to " b " returned
\* exactly [("B", 7)].
C9_Witness ==
    /\ db = SeededTables
    /\ sess[1].pc = "idle"
    /\ sess[1].outcome = "returned"
    /\ sess[1].result.q = "summary"
    /\ sess[1].result.start = Week1.start
    /\ sess[1].result.end = Week1.end
    /\ sess[1].result.line = Some(<<" ","b"," ">>)
    /\ sess[1].result.value = << <<(<<"B">>), 7>> >>

(***************************************************************************)
(* Properties of the weekly trend (checked under TrendSpec).               *)
(***************************************************************************)
W2022_52 == <<"2","0","2","2","-","W","5","2">>
W2023_01 == <<"2","0","2","3","-","W","0","1">>
W2023_02 == <<"2","0","2","3","-","W","0","2">>

UnboundedSeededTrend(p) ==
    /\ db = SeededTables
    /\ sess[p].result.q = "trend"
    /\ sess[p].result.start = None
    /\ sess[p].result.end = None

ThursdayOf(d) == d - ((d + 6) % 7) + 3
IsoYear(d) == YearOf(ThursdayOf(d))
IsoWeek(d) == ((ThursdayOf(d) - Jan1Ordinal(IsoYear(d))) \div 7) + 1
IsoLabel(d) ==
    Digits(IsoYear(d)) \o <<"-", "W">>
      \o (IF IsoWeek(d) < 10 THEN <<"0">> ELSE << >>) \o Digits(IsoWeek(d))

\* the inspection records with a defect reference and a date within the bounds
TrendRecords(start, end) ==
    { r \in db.insp :
        /\ r.defect_id # None
        /\ r.inspection_date # None
        /\ (start = None \/ Val(r.inspection_date) >= Val(start))
        /\ (end = None \/ Val(r.inspection_date) <= Val(end)) }

CodeOf(r) == (CHOOSE e \in db.defects : Some(e.id) = r.defect_id).defect_code
TrendKey(r) == <<IsoLabel(Val(r.inspection_date)), CodeOf(r)>>

\* C11: the trend lists exactly one triple per (ISO week, defect code) of the
\* inspection records that have a defect reference and a date within the
\* inclusive bounds, its total the sum of their qty_defects, no key twice,
\* in strictly ascending order of (week label, defect code); records with no
\* defect reference contribute to no triple.
C11_TrendTriples ==
    \A p \in Callers :
        LET q == sess[p].result
        IN  q.q = "trend" =>
              LET v == q.value
                  recs == TrendRecords(q.start, q.end)
              IN  /\ { <<v[i][1], v[i][2]>> : i \in DOMAIN v } = { TrendKey(r) : r \in recs }
                  /\ \A i \in DOMAIN v :
                        v[i][3] = SumQty({ r \in recs : TrendKey(r) = <<v[i][1], v[i][2]>> })
                  /\ \A i, j \in DOMAIN v :
                        i < j => KeyLess(<<v[i][1], v[i][2]>>, <<v[j][1], v[j][2]>>)

\* C11 witness: a bounded trend over imported rows returned one triple of
\* total 2 while the store also holds a record with no defect reference.
C11_Witness ==
    /\ sess[1].pc = "idle"
    /\ sess[1].outcome = "returned"
    /\ sess[1].result.q = "trend"
    /\ sess[1].result.end = Some(Day0 + 13)
    /\ sess[1].result.value = << <<W2022_52, <<"D","1">>, 2>> >>
    /\ \E r \in db.insp : r.defect_id = None

(***************************************************************************)
(* Properties of the defect reference of inspection records (Spec).        *)
(***************************************************************************)
PositiveQty(row) ==
    LET qty == GetD(row, "Qty_Defects", Some(0))
    IN  qty # None /\ Val(qty) > 0

HasCode(row) == Get(row, "Defect_Code") \notin {None, Some(<< >>)}

\* the inspection record that one more iteration of the loop adds for row
AddedRecord(p, row) ==
    Val(import_row("inspection", Loop(p), row).view.insp \ Loop(p).view.insp)

\* C12: an accepted inspection row with a positive defect quantity and no
\* explicit defect code is persisted with a reference to the Defect whose
\* canonical code is "UNKNOWN".
C12_DefaultsToUnknown ==
    \A p \in Callers : \A row \in InspectionRows :
        ( /\ sess[p].pc = "block" /\ sess[p].kind = "inspection"
          /\ InspectionRequired(row) /\ PositiveQty(row) /\ ~ HasCode(row) ) =>
            \E e \in import_row("inspection", Loop(p), row).view.defects :
                /\ e.defect_code = UNKNOWN
                /\ AddedRecord(p, row).defect_id = Some(e.id)

\* C13: an accepted inspection row resolves (creating it if new) the Defect of
\* its canonical code exactly when its quantity is positive and its code is
\* non-empty; every other accepted row is persisted with no defect reference
\* and leaves the Defect table as it was.
C13_DefectOnlyWithQtyAndCode ==
    \A p \in Callers : \A row \in InspectionRows :
        ( /\ sess[p].pc = "block" /\ sess[p].kind = "inspection"
          /\ InspectionRequired(row) ) =>
            LET before == Loop(p).view.defects
                after == import_row("inspection", Loop(p), row).view.defects
                canon == Upper(Strip(Val(Get(row, "Defect_Code"))))
            IN  IF PositiveQty(row) /\ HasCode(row)
                THEN /\ \E e \in after :
                           /\ e.defect_code = canon
                           /\ AddedRecord(p, row).defect_id = Some(e.id)
                     /\ before \subseteq after
                     /\ Cardinality(after) = Cardinality(before)
                           + (IF \E e \in before : e.defect_code = canon THEN 0 ELSE 1)
                ELSE /\ AddedRecord(p, row).defect_id = None
                     /\ after = before

\* C13 witness: one import stored a record with a positive quantity and no
\* code, left without a defect reference, and a record that references the
\* one Defect of the store.
C13_Witness ==
    /\ sess[1].pc = "idle"
    /\ sess[1].outcome = "returned"
    /\ sess[1].kind = "inspection"
    /\ Cardinality(db.defects) = 1
    /\ \E r \in db.insp : r.defect_id = None /\ r.qty_defects = Some(1)
    /\ \E r \in db.insp : \E e \in db.defects : r.defect_id = Some(e.id)

(***************************************************************************)
(* Properties of the lot normalisers (NormSpec).                           *)
(***************************************************************************)
\* the letters and digits of a string with the letter case removed
Fold(t) == Upper(SelectSeq(t, IsAlnum))

\* C14: lot_utils.normalize_lot_id is idempotent, its result holds only
\* upper-case letters A-Z and digits, inputs that differ only in letter case
\* and in characters that are neither letters nor digits have the same
\* result ("Lot-001 A" and "LOT 001A" give "LOT001A"), and None and the empty
\* string give the empty string.
C14_NormalizeLaws ==
    \A p \in Callers :
        LET q == sess[p].result
        IN  q.q = "normalize" =>
              /\ normalize_lot_id(Some(q.value)) = q.value
              /\ \A i \in DOMAIN q.value :
                    q.value[i] \in Range(UpperChars) \cup Range(DigitChars)
              /\ q.arg # None =>
                    \A other \in NormInputs \ {None} :
                        Fold(Val(other)) = Fold(Val(q.arg)) =>
                            normalize_lot_id(other) = q.value
              /\ q.arg \in {None, Some(<< >>)} => q.value = << >>
              /\ q.arg \in {Some(Lot001A), Some(LOT_001A)} =>
                    q.value = <<"L","O","T","0","0","1","A">>

\* C14 witness: "Lot-001 A" was normalised to "LOT001A".
C14_Witness ==
    /\ sess[1].result.q = "normalize"
    /\ sess[1].result.arg = Some(Lot001A)
    /\ sess[1].result.value = <<"L","O","T","0","0","1","A">>

\* C19: for every input, None and letters outside A-Z, a-z included,
\* utils.normalize_lot_id returns what lot_utils.normalize_lot_id returns.
C19_NormalisersAgree ==
    \A p \in Callers :
        LET q == sess[p].result
        IN  q.q = "normalize" => ~ q.utils.raised /\ q.utils.value = q.value

(***************************************************************************)
(* Properties of the canonical keys of the dimension entities (Spec).      *)
(***************************************************************************)
\* C16: a row whose lot key is null, empty or empty after normalisation is
\* rejected by the importer (it is skipped and creates nothing), and no Lot
\* with the empty canonical identifier is ever stored by an import.
C16_NoEmptyLot ==
    \A p \in Callers :
        /\ sess[p].kind \in ImportKinds => \A e \in View(p).lots : e.lot # << >>
        /\ \A row \in RowsOf(sess[p].kind) :
              ( /\ sess[p].pc = "block" /\ sess[p].kind \in ImportKinds
                /\ normalize_lot_id(Get(row, "Lot_ID")) = << >> ) =>
                  import_row(sess[p].kind, Loop(p), row) =
                      [Loop(p) EXCEPT !.skipped = @ + 1]

\* C18: every ProductionLine and Defect entity has a non-empty canonical
\* name, and a key that is null, empty or only whitespace resolves to the
\* entity named "UNKNOWN".
C18_NoEmptyName ==
    \A p \in Callers :
        /\ \A e \in View(p).lines : e.line # << >>
        /\ \A e \in View(p).defects : e.defect_code # << >>
        /\ \A raw \in LineInputs \cup CodeInputs :
              (sess[p].pc = "block" /\ (raw = None \/ Strip(Val(raw)) = << >>)) =>
                  /\ \E e \in get_or_create_line(View(p), raw).view.lines :
                        /\ e.line = UNKNOWN
                        /\ get_or_create_line(View(p), raw).id = Some(e.id)
                  /\ \E e \in get_or_create_defect(View(p), raw).view.defects :
                        /\ e.defect_code = UNKNOWN
                        /\ get_or_create_defect(View(p), raw).id = Some(e.id)

(***************************************************************************)
(* ConcSpec: two callers, each in its own get_session scope, resolve keys  *)
(* that canonicalise alike.  A resolver call is two steps, the select and  *)
(* the add/flush, and the steps of the two callers interleave.  A session  *)
(* reads the committed rows and its own flushed rows.  The ORM classes     *)
(* are outside this source tree: the dimension tables carry the uniqueness *)
(* constraint on the canonical key that the design relies on, and the      *)
(* storage engine numbers the rows of a table from one sequence.           *)
(***************************************************************************)
ConcRaws(dim) ==
    CASE dim = "lot"    -> { Some(<<"L","o","t","-","1">>), Some(<<"L","O","T"," ","1">>) }
      [] dim = "line"   -> { Some(<<"a">>), Some(<<" ","A">>) }
      [] dim = "defect" -> { Some(<<"d","1">>), Some(<<"D","1"," ">>) }

\* the rows of every session and of the store
AllRows(t) == db[t] \cup UNION { sess[q].pend[t] : q \in Procs }

\* a flushed or committed row of table t would repeat a committed key
UniqueViolation(t, col, rows) == \E e \in rows : \E f \in db[t] : f[col] = e[col] /\ f # e

\* session.execute(select(...)).scalar_one_or_none(): the first step of a
\* resolver; a hit returns the entity, a miss leaves the insert to come
ConcLookup(p, dim, raw) ==
    /\ sess[p].pc = "block"
    /\ sess[p].kind = "conc"
    /\ sess[p].ret = NoRet
    /\ fed < MaxRows
    /\ fed' = fed + 1
    /\ LET r == Resolve(dim, View(p), raw)
       IN  sess' = [sess EXCEPT
                ![p].ret = IF r.view = View(p) THEN NoRet
                           ELSE [dim |-> dim, raw |-> raw, id |-> None],
                ![p].valid = @ + 1]
    /\ UNCHANGED <<db, uses>>

\* session.add(new); session.flush(): the second step of a resolver
ConcFlush(p) ==
    /\ sess[p].pc = "block"
    /\ sess[p].kind = "conc"
    /\ sess[p].ret # NoRet
    /\ LET dim == sess[p].ret.dim
           t == DimTable(dim)
           \* the row the resolver builds for a key it did not find
           row == Val(Resolve(dim, EmptyTables, sess[p].ret.raw).view[t])
           new == [row EXCEPT !.id = NextId(AllRows(t))]
       IN  IF UniqueViolation(t, DimCol(dim), {new})
           THEN sess' = [sess EXCEPT ![p].pc = "rollback", ![p].exc = TRUE,
                                     ![p].blockExc = TRUE, ![p].ret = NoRet]
           ELSE sess' = [sess EXCEPT ![p].pend[t] = @ \cup {new}, ![p].ret = NoRet]
    /\ UNCHANGED <<db, uses, fed>>

ConcEndBlock(p) ==
    /\ sess[p].pc = "block"
    /\ sess[p].kind = "conc"
    /\ sess[p].ret = NoRet
    /\ sess' = [sess EXCEPT ![p].pc = "commit"]
    /\ UNCHANGED <<db, uses, fed>>

\* session.commit(): raises IntegrityError when a flushed row repeats a key
\* that was committed meanwhile
ConcCommit(p) ==
    /\ sess[p].pc = "commit"
    /\ IF \E dim \in Dims : UniqueViolation(DimTable(dim), DimCol(dim), sess[p].pend[DimTable(dim)])
       THEN /\ sess' = [sess EXCEPT ![p].pc = "rollback", ![p].exc = TRUE]
            /\ UNCHANGED db
       ELSE /\ db' = View(p)
            /\ sess' = [sess EXCEPT ![p].pc = "close", ![p].pend = EmptyTables,
                                    ![p].commits = @ + 1]
    /\ UNCHANGED <<uses, fed>>

ConcNext ==
    \E p \in Procs :
        \/ Enter(p, "conc")
        \/ \E dim \in Dims : \E raw \in ConcRaws(dim) : ConcLookup(p, dim, raw)
        \/ ConcFlush(p)
        \/ ConcEndBlock(p)
        \/ ConcCommit(p)
        \/ Rollback(p)
        \/ Close(p)

ConcSpec == Init /\ [][ConcNext]_vars

LowerOfUpper ==
    [c \in Range(UpperChars) |-> LowerChars[CHOOSE i \in DOMAIN UpperChars : UpperChars[i] = c]]

\* str.lower()
Lower(s) == [i \in DOMAIN s |-> IF s[i] \in Range(UpperChars) THEN LowerOfUpper[s[i]] ELSE s[i]]

\* sub in name
Contains(name, sub) ==
    \E i \in 1..(Len(name) - Len(sub) + 1) : SubSeq(name, i, i + Len(sub) - 1) = sub

\* the loop body with name = file.name: the case of the name is kept
load_all_samples_NoLower(file) ==
    LET name == file
    IN  IF Contains(name, <<"p","r","o","d","u","c","t","i","o","n">>) \/ Contains(name, <<"p","r","o","d">>)
        THEN {"production"}
        ELSE IF \/ Contains(name, <<"i","n","s","p","e","c","t","i","o","n">>) \/ Contains(name, <<"i","n","s","p","e","c","t","o","r">>)
                \/ Contains(name, <<"q","e">>) \/ Contains(name, <<"d","a","i","l","y">>)
                \/ Contains(name, <<"w","e","e","k","l","y">>)
        THEN {"inspection"}
        ELSE IF Contains(name, <<"s","h","i","p","p","i","n","g">>) \/ Contains(name, <<"s","h","i","p">>)
        THEN {"shipping"}
        ELSE {}

\* the body of the loop over sample_dir.glob("*.xlsx"): the set of loaders
\* called for the file
load_all_samples(file) ==
    LET name == Lower(file)
    IN  IF Contains(name, <<"p","r","o","d","u","c","t","i","o","n">>) \/ Contains(name, <<"p","r","o","d">>)
        THEN {"production"}
        ELSE IF \/ Contains(name, <<"i","n","s","p","e","c","t","i","o","n">>) \/ Contains(name, <<"i","n","s","p","e","c","t","o","r">>)
                \/ Contains(name, <<"q","e">>) \/ Contains(name, <<"d","a","i","l","y">>)
                \/ Contains(name, <<"w","e","e","k","l","y">>)
        THEN {"inspection"}
        ELSE IF Contains(name, <<"s","h","i","p","p","i","n","g">>) \/ Contains(name, <<"s","h","i","p">>)
        THEN {"shipping"}
        ELSE {}

NameParts ==
    { <<"p","r","o","d">>,
      <<"P","r","o","d","u","c","t","i","o","n">>,
      <<"i","n","s","p","e","c","t","i","o","n">>,
      <<"I","n","s","p","e","c","t","o","r">>,
      <<"q","e">>,
      <<"d","a","i","l","y">>,
      <<"W","e","e","k","l","y">>,
      <<"s","h","i","p","p","i","n","g">>,
      <<"S","h","i","p">>,
      <<"d","a","t","a">> }

RECURSIVE Stems(_)
Stems(n) ==
    IF n = 0 THEN { << >> }
    ELSE Stems(n - 1) \cup { s \o f : s \in Stems(n - 1), f \in NameParts }

FileNames == { s \o <<".","x","l","s","x">> : s \in Stems(MaxParts) }

LoadFile(p, file) ==
    /\ sess[p].pc = "idle"
    /\ sess' = [sess EXCEPT ![p].result =
                    [q |-> "load", file |-> file, loaders |-> load_all_samples(file)]]
    /\ UNCHANGED <<db, uses, fed>>

LoadNext == \E p \in Callers : \E file \in FileNames : LoadFile(p, file)

LoadSpec == Init /\ [][LoadNext]_vars

LoaderOrder == <<"production", "inspection", "shipping">>

Keywords ==
    [production |-> { <<"p","r","o","d","u","c","t","i","o","n">>, <<"p","r","o","d">> },
     inspection |-> { <<"i","n","s","p","e","c","t","i","o","n">>,
                     <<"i","n","s","p","e","c","t","o","r">>,
                     <<"q","e">>,
                     <<"d","a","i","l","y">>,
                     <<"w","e","e","k","l","y">> },
     shipping |-> { <<"s","h","i","p","p","i","n","g">>, <<"s","h","i","p">> }]

NameMatches(file, type) == \E k \in Keywords[type] : Contains(Lower(file), k)

\* C17: each file goes to at most one loader; it goes to none exactly when
\* its lower-cased name holds no keyword of any type; otherwise it goes to
\* the first type, in the order production, inspection, shipping, one of
\* whose keywords the lower-cased name holds.
C17_FileRouting ==
    \A p \in Callers :
        LET q == sess[p].result
        IN  q.q = "load" =>
              /\ Cardinality(q.loaders) <= 1
              /\ q.loaders \subseteq Range(LoaderOrder)
              /\ q.loaders = {} <=> \A i \in DOMAIN LoaderOrder : ~ NameMatches(q.file, LoaderOrder[i])
              /\ \A i \in DOMAIN LoaderOrder :
                    LoaderOrder[i] \in q.loaders <=>
                        /\ NameMatches(q.file, LoaderOrder[i])
                        /\ \A j \in 1..(i - 1) : ~ NameMatches(q.file, LoaderOrder[j])

\* C17 witness: "ProductionShip.xlsx" matches two types and went to the
\* production loader.
C17_Witness ==
    /\ sess[1].result.q = "load"
    /\ sess[1].result.file = <<"P","r","o","d","u","c","t","i","o","n","S","h","i","p",".","x","l","s","x">>
    /\ sess[1].result.loaders = {"production"}

=============================================================================
